---- MODULE Spec2Model ----
(***************************************************************************)
(* Model of server.js: the matchmaking queue (waitingPlayers), the room    *)
(* registry (rooms), the GameRoom objects, the two setTimeout callbacks    *)
(* and the guess evaluation (checkGuess).                                  *)
(*                                                                         *)
(* Every socket handler and every timer callback runs to completion on the *)
(* single event loop, so each one is one atomic action.                    *)
(***************************************************************************)
EXTENDS Integers, Sequences, FiniteSets, TLC

\* ------------------------------------------------------------------ bounds
\* of SpecMatch: matchmaking
MaxRooms == 2       \* GameRoom objects constructed during a run
\* of SpecRound: one room and its rounds
RoundGuesses == 7   \* guess records per player and round
RoundScore == 1     \* sum of the scores of a room
RoundTimers == 1    \* callbacks pending at once
\* of SpecSession: one room until a player disconnects
SessionGuesses == 1 \* guess records per player and round
SessionScore == 2   \* sum of the scores of the room
SessionTimers == 2  \* callbacks pending at once
\* of SpecEvaluate: checkGuess on every pair of words
EvalLen == 3        \* letters of a word

\* ------------------------------------------------------- program constants
GUESS_LIMIT == 6    \* guesses.length >= 6
START_DELAY == 1000 \* setTimeout(..., 1000)
OVER_DELAY == 500   \* setTimeout(..., 500)

\* socket ids
Players == {"P1", "P2", "P3"}
None == "null"      \* the null winner
NoRoom == 0         \* rooms.get() of an unknown roomId

\* Letters are named; a final glyph carries the suffix F. Two entries of the
\* vocabulary: a two-letter word ending in a final glyph and a three-letter
\* word, so that rounds differ in word length.
WORD_LIST == << <<"ayin", "tsadiF">>, <<"samekh", "pe", "resh">> >>

Words == {WORD_LIST[i] : i \in 1..Len(WORD_LIST)}

\* payloads of submitGuess: the empty string, a two-letter word that equals
\* the first target up to the final glyph, a two-letter miss, and the
\* three-letter target
GuessInputs == {<<>>, <<"ayin", "tsadi">>, <<"pe", "ayin">>, <<"samekh", "pe", "resh">>}

\* the two letters that have a final glyph, each in both glyphs
EvalLetters == {"pe", "peF", "tsadi", "tsadiF"}

\* every word of up to EvalLen glyphs
EvalWords == UNION {[1..n -> EvalLetters] : n \in 1..EvalLen}

\* payloads of updateGuess: one letter, and more letters than any target has
UpdateInputs == {<<"ayin">>, <<"samekh", "pe", "resh", "ayin">>}

\* ------------------------------------------------------------- checkGuess
\* the entries of the table finalToRegular: final glyph, letter
FinalPairs == {<<"peF", "pe">>, <<"tsadiF", "tsadi">>}

\* finalToRegular without the entry of the final pe
finalToRegularNoPe(char) ==
  CASE char = "tsadiF" -> "tsadi"
    [] OTHER -> char

\* the final glyphs that finalToRegular maps to another letter
finalToRegular(char) ==
  CASE char = "peF" -> "pe"
    [] char = "tsadiF" -> "tsadi"
    [] OTHER -> char

normalizeHebrew(text) == [i \in 1..Len(text) |-> finalToRegular(text[i])]

\* first pass: positions where the letters agree
ExactPass(guessLetters, targetLetters) ==
  [i \in 1..Len(guessLetters) |->
     i <= Len(targetLetters) /\ guessLetters[i] = targetLetters[i]]

\* findIndex(l => l === letter), without the test of used
FindIndexUsed(targetLetters, used, letter) ==
  LET hits == {idx \in 1..Len(targetLetters) : targetLetters[idx] = letter}
  IN IF hits = {} THEN 0 ELSE CHOOSE idx \in hits : \A j \in hits : idx <= j

\* targetLetters.findIndex((l, idx) => l === letter && !used[idx]), 0 if none
FindIndex(targetLetters, used, letter) ==
  LET hits == {idx \in 1..Len(targetLetters) :
                 targetLetters[idx] = letter /\ ~used[idx]}
  IN IF hits = {} THEN 0 ELSE CHOOSE idx \in hits : \A j \in hits : idx <= j

\* second pass from position i on, with the target positions used so far
RECURSIVE PresencePass(_, _, _, _, _)
PresencePass(guessLetters, targetLetters, exact, used, i) ==
  IF i > Len(guessLetters) THEN <<>>
  ELSE IF exact[i]
    THEN <<"correct">> \o PresencePass(guessLetters, targetLetters, exact, used, i + 1)
    ELSE LET targetIndex == FindIndex(targetLetters, used, guessLetters[i])
         IN IF targetIndex # 0
              THEN <<"present">> \o
                   PresencePass(guessLetters, targetLetters, exact,
                                [used EXCEPT ![targetIndex] = TRUE], i + 1)
              ELSE <<"absent">> \o
                   PresencePass(guessLetters, targetLetters, exact, used, i + 1)

checkGuess(guess, target) ==
  LET guessLetters == normalizeHebrew(guess)
      targetLetters == normalizeHebrew(target)
      exact == ExactPass(guessLetters, targetLetters)
      used == [idx \in 1..Len(targetLetters) |-> idx <= Len(guessLetters) /\ exact[idx]]
  IN PresencePass(guessLetters, targetLetters, exact, used, 1)

AllCorrect(result) == \A i \in 1..Len(result) : result[i] = "correct"

\* --------------------------------------------------------------- GameRoom
NewPlayer(id) ==
  [id |-> id, guesses |-> <<>>, currentGuess |-> <<>>,
   won |-> FALSE, finished |-> FALSE, score |-> 0]

\* new GameRoom(roomId, player1, player2) with the word getRandomWord() drew
NewGameRoom(roomId, player1, player2, word) ==
  [roomId |-> roomId,
   players |-> [id \in {player1, player2} |-> NewPlayer(id)],
   targetWord |-> word,
   gameStarted |-> FALSE]

\* Object.values(this.players): the keys in insertion order
PlayerArray(room) ==
  IF room.roomId[1] = room.roomId[2] THEN <<room.roomId[1]>> ELSE room.roomId

\* startNewRound without player.won = false
startNewRoundKeepsWon(room, word) ==
  [room EXCEPT
     !.targetWord = word,
     !.players = [id \in DOMAIN room.players |->
                    [room.players[id] EXCEPT !.guesses = <<>>,
                                             !.currentGuess = <<>>,
                                             !.finished = FALSE]],
     !.gameStarted = TRUE]

\* startNewRound that resets the score with the other fields
startNewRoundScore(room, word) ==
  [room EXCEPT
     !.targetWord = word,
     !.players = [id \in DOMAIN room.players |->
                    [room.players[id] EXCEPT !.guesses = <<>>,
                                             !.currentGuess = <<>>,
                                             !.won = FALSE,
                                             !.finished = FALSE,
                                             !.score = 0]],
     !.gameStarted = TRUE]

startNewRound(room, word) ==
  [room EXCEPT
     !.targetWord = word,
     !.players = [id \in DOMAIN room.players |->
                    [room.players[id] EXCEPT !.guesses = <<>>,
                                             !.currentGuess = <<>>,
                                             !.won = FALSE,
                                             !.finished = FALSE]],
     !.gameStarted = TRUE]

\* updatePlayerGuess with currentGuess += guess
updatePlayerGuessAppend(room, playerId, guess) ==
  IF playerId \in DOMAIN room.players
    THEN [room EXCEPT !.players[playerId].currentGuess = @ \o guess]
    ELSE room

updatePlayerGuess(room, playerId, guess) ==
  IF playerId \in DOMAIN room.players
    THEN [room EXCEPT !.players[playerId].currentGuess = guess]
    ELSE room

\* submitPlayerGuess with the limit tested as guesses.length > 6
submitPlayerGuessLate(room, playerId, guess, result) ==
  IF playerId \in DOMAIN room.players
    THEN LET pl == room.players[playerId]
             guesses == Append(pl.guesses, [word |-> guess, result |-> result])
         IN [room EXCEPT !.players[playerId] =
               IF AllCorrect(result)
                 THEN [pl EXCEPT !.guesses = guesses, !.currentGuess = <<>>,
                                 !.won = TRUE, !.finished = TRUE,
                                 !.score = pl.score + 1]
               ELSE IF Len(guesses) > GUESS_LIMIT
                 THEN [pl EXCEPT !.guesses = guesses, !.currentGuess = <<>>,
                                 !.finished = TRUE]
               ELSE [pl EXCEPT !.guesses = guesses, !.currentGuess = <<>>]]
    ELSE room

submitPlayerGuess(room, playerId, guess, result) ==
  IF playerId \in DOMAIN room.players
    THEN LET pl == room.players[playerId]
             guesses == Append(pl.guesses, [word |-> guess, result |-> result])
         IN [room EXCEPT !.players[playerId] =
               IF AllCorrect(result)
                 THEN [pl EXCEPT !.guesses = guesses, !.currentGuess = <<>>,
                                 !.won = TRUE, !.finished = TRUE,
                                 !.score = pl.score + 1]
               ELSE IF Len(guesses) >= GUESS_LIMIT
                 THEN [pl EXCEPT !.guesses = guesses, !.currentGuess = <<>>,
                                 !.finished = TRUE]
               ELSE [pl EXCEPT !.guesses = guesses, !.currentGuess = <<>>]]
    ELSE room

isGameOver(room) == \A id \in DOMAIN room.players : room.players[id].finished

\* getWinner with find(p => p.finished)
getWinnerFinished(room) ==
  LET playerArray == PlayerArray(room)
      hits == {i \in 1..Len(playerArray) : room.players[playerArray[i]].finished}
  IN IF hits = {} THEN None
     ELSE playerArray[CHOOSE i \in hits : \A j \in hits : i <= j]

getWinner(room) ==
  LET playerArray == PlayerArray(room)
      hits == {i \in 1..Len(playerArray) : room.players[playerArray[i]].won}
  IN IF hits = {} THEN None
     ELSE playerArray[CHOOSE i \in hits : \A j \in hits : i <= j]

getGameState(room) ==
  [players |-> room.players,
   gameStarted |-> room.gameStarted,
   isGameOver |-> isGameOver(room)]

\* ------------------------------------------------------------------ state
VARIABLES
  connected,       \* connected[p]: socket p is connected
  waitingPlayers,  \* the waiting list, oldest first
  rooms,           \* the registry: roomId -> GameRoom object
  heap,            \* the GameRoom objects, in order of construction
  socketRoomId,    \* socket.roomId of each socket
  timers,          \* pending setTimeout callbacks, in scheduling order
  emitted          \* the messages the last handler or callback emitted

vars == <<connected, waitingPlayers, rooms, heap, socketRoomId, timers, emitted>>

Init ==
  /\ connected = [p \in Players |-> TRUE]
  /\ waitingPlayers = <<>>
  /\ rooms = <<>>
  /\ heap = <<>>
  /\ socketRoomId = [p \in Players |-> <<>>]
  /\ timers = <<>>
  /\ emitted = <<>>

\* rooms.get(roomId): the object, or None
RoomsGet(roomId) == IF roomId \in DOMAIN rooms THEN rooms[roomId] ELSE NoRoom

\* rooms.set(roomId, obj)
RoomsSet(roomId, obj) ==
  [r \in DOMAIN rooms \cup {roomId} |-> IF r = roomId THEN obj ELSE rooms[r]]

\* rooms.delete(roomId)
RoomsDelete(roomId) == [r \in DOMAIN rooms \ {roomId} |-> rooms[r]]

\* the list read at [0] and not shifted
ShiftNothing(queue) == queue

\* what waitingPlayers.shift() leaves in the list
Shift(queue) == Tail(queue)

\* waitingPlayers.indexOf(socket), 0 if absent
IndexOf(queue, p) ==
  LET hits == {i \in 1..Len(queue) : queue[i] = p}
  IN IF hits = {} THEN 0 ELSE CHOOSE i \in hits : \A j \in hits : i <= j

\* slice(index, 1) in place of splice: the list is left as it is
SliceNotSplice(queue, index) == queue

\* waitingPlayers.splice(index, 1)
Splice(queue, index) ==
  [i \in 1..(Len(queue) - 1) |-> IF i < index THEN queue[i] ELSE queue[i + 1]]

\* index = waitingPlayers.indexOf(socket); if (index > -1) splice(index, 1)
Remove(queue, p) ==
  LET index == IndexOf(queue, p)
  IN IF index > 0 THEN Splice(queue, index) ELSE queue

\* A pending callback: its delay, and the room object and roomId it closed over.
\* completed is not state of the program: it records the winner and the target
\* word at the moment the callback was scheduled, which is what the callback
\* would announce with its delay collapsed to zero.
Timer(delay, obj, roomId, room) ==
  [delay |-> delay, room |-> obj, roomId |-> roomId,
   completed |-> [winnerId |-> getWinner(room), targetWord |-> room.targetWord]]

\* the timer list without the callback that ran
RemoveTimer(index) ==
  [i \in 1..(Len(timers) - 1) |-> IF i < index THEN timers[i] ELSE timers[i + 1]]

\* A callback scheduled earlier with a delay that is not longer runs first;
\* otherwise the order depends on when the events arrived.
Due(index) ==
  /\ index \in 1..Len(timers)
  /\ \A j \in 1..(index - 1) : timers[j].delay > timers[index].delay

\* A GameRoom that neither the registry nor a pending callback references can
\* no longer be read or written: its slot of the heap holds Collected.
Collected == [roomId |-> <<>>, players |-> <<>>, targetWord |-> <<>>, gameStarted |-> FALSE]

Referenced(registry, callbacks) ==
  {registry[r] : r \in DOMAIN registry} \cup
  {callbacks[j].room : j \in 1..Len(callbacks)}

Collect(objects, registry, callbacks) ==
  [obj \in 1..Len(objects) |->
     IF obj \in Referenced(registry, callbacks) THEN objects[obj] ELSE Collected]

\* ----------------------------------------------------------------- emits
MatchFound(to, roomId, opponentId) ==
  [type |-> "matchFound", to |-> <<to>>, roomId |-> roomId,
   opponentId |-> opponentId, yourId |-> to]

WaitingForOpponent(to) == [type |-> "waitingForOpponent", to |-> <<to>>]

GameStart(roomId, room) ==
  [type |-> "gameStart", to |-> roomId,
   targetWordLength |-> Len(room.targetWord), gameState |-> getGameState(room)]

GameUpdate(roomId, room) ==
  [type |-> "gameUpdate", to |-> roomId, gameState |-> getGameState(room)]

GameOver(roomId, room) ==
  [type |-> "gameOver", to |-> roomId, winnerId |-> getWinner(room),
   targetWord |-> room.targetWord, gameState |-> getGameState(room)]

OpponentDisconnected(roomId) == [type |-> "opponentDisconnected", to |-> roomId]

\* --------------------------------------------------------------- handlers
\* socket.on('findMatch')
FindMatch(p) ==
  /\ connected[p]
  /\ IF Len(waitingPlayers) > 0
       THEN LET opponent == Head(waitingPlayers)
                roomId == <<p, opponent>>
                obj == Len(heap) + 1
            IN /\ waitingPlayers' = Shift(waitingPlayers)
               /\ rooms' = RoomsSet(roomId, obj)
               /\ \E word \in Words :
                     LET room == NewGameRoom(roomId, p, opponent, word)
                     IN /\ timers' = Append(timers, Timer(START_DELAY, obj, roomId, room))
                        /\ heap' = Collect(Append(heap, room), rooms', timers')
               /\ socketRoomId' = [q \in Players |->
                                     IF q \in {p, opponent} THEN roomId
                                     ELSE socketRoomId[q]]
               /\ emitted' = <<MatchFound(p, roomId, opponent),
                               MatchFound(opponent, roomId, p)>>
       ELSE /\ waitingPlayers' = Append(waitingPlayers, p)
            /\ emitted' = <<WaitingForOpponent(p)>>
            /\ UNCHANGED <<rooms, heap, socketRoomId, timers>>
  /\ UNCHANGED connected

\* socket.on('cancelMatch')
CancelMatch(p) ==
  /\ connected[p]
  /\ waitingPlayers' = Remove(waitingPlayers, p)
  /\ emitted' = <<>>
  /\ UNCHANGED <<connected, rooms, heap, socketRoomId, timers>>

\* socket.on('updateGuess')
UpdateGuess(p, guess) ==
  /\ connected[p]
  /\ LET roomId == socketRoomId[p]
         obj == RoomsGet(roomId)
     IN IF obj # NoRoom
          THEN LET room == updatePlayerGuess(heap[obj], p, guess)
               IN /\ heap' = [heap EXCEPT ![obj] = room]
                  /\ emitted' = <<GameUpdate(roomId, room)>>
          ELSE /\ emitted' = <<>>
               /\ UNCHANGED heap
  /\ UNCHANGED <<connected, waitingPlayers, rooms, socketRoomId, timers>>

\* submitGuess with the length of the guess not compared to the target word
SubmitGuessAnyLength(p, guess) ==
  /\ connected[p]
  /\ LET roomId == socketRoomId[p]
         obj == RoomsGet(roomId)
     IN IF obj # NoRoom /\ guess # <<>>
          THEN LET result == checkGuess(guess, heap[obj].targetWord)
                   room == submitPlayerGuess(heap[obj], p, guess, result)
               IN /\ heap' = [heap EXCEPT ![obj] = room]
                  /\ emitted' = <<GameUpdate(roomId, room)>>
                  /\ timers' = IF isGameOver(room)
                                 THEN Append(timers, Timer(OVER_DELAY, obj, roomId, room))
                                 ELSE timers
          ELSE /\ emitted' = <<>>
               /\ UNCHANGED <<heap, timers>>
  /\ UNCHANGED <<connected, waitingPlayers, rooms, socketRoomId>>

\* socket.on('submitGuess')
SubmitGuess(p, guess) ==
  /\ connected[p]
  /\ LET roomId == socketRoomId[p]
         obj == RoomsGet(roomId)
     IN IF obj # NoRoom /\ guess # <<>> /\ Len(guess) = Len(heap[obj].targetWord)
          THEN LET result == checkGuess(guess, heap[obj].targetWord)
                   room == submitPlayerGuess(heap[obj], p, guess, result)
               IN /\ heap' = [heap EXCEPT ![obj] = room]
                  /\ emitted' = <<GameUpdate(roomId, room)>>
                  /\ timers' = IF isGameOver(room)
                                 THEN Append(timers, Timer(OVER_DELAY, obj, roomId, room))
                                 ELSE timers
          ELSE /\ emitted' = <<>>
               /\ UNCHANGED <<heap, timers>>
  /\ UNCHANGED <<connected, waitingPlayers, rooms, socketRoomId>>

\* socket.on('newRound')
NewRound(p) ==
  /\ connected[p]
  /\ LET roomId == socketRoomId[p]
         obj == RoomsGet(roomId)
     IN IF obj # NoRoom
          THEN \E word \in Words :
                 LET room == startNewRound(heap[obj], word)
                 IN /\ heap' = [heap EXCEPT ![obj] = room]
                    /\ emitted' = <<GameStart(roomId, room)>>
          ELSE /\ emitted' = <<>>
               /\ UNCHANGED heap
  /\ UNCHANGED <<connected, waitingPlayers, rooms, socketRoomId, timers>>

\* socket.on('disconnect')
Disconnect(p) ==
  /\ connected[p]
  /\ connected' = [connected EXCEPT ![p] = FALSE]
  /\ waitingPlayers' = Remove(waitingPlayers, p)
  /\ LET roomId == socketRoomId[p]
     IN IF roomId # <<>>
          THEN /\ emitted' = <<OpponentDisconnected(roomId)>>
               /\ rooms' = RoomsDelete(roomId)
          ELSE /\ emitted' = <<>>
               /\ UNCHANGED rooms
  /\ heap' = Collect(heap, rooms', timers)
  /\ UNCHANGED <<socketRoomId, timers>>

\* the callback of setTimeout(..., 1000) in findMatch
StartTimer(index) ==
  /\ Due(index)
  /\ timers[index].delay = START_DELAY
  /\ timers' = RemoveTimer(index)
  /\ LET obj == timers[index].room
     IN \E word \in Words :
          LET room == startNewRound(heap[obj], word)
          IN /\ heap' = Collect([heap EXCEPT ![obj] = room], rooms, timers')
             /\ emitted' = <<GameStart(timers[index].roomId, room)>>
  /\ UNCHANGED <<connected, waitingPlayers, rooms, socketRoomId>>

\* the callback of setTimeout(..., 500) in submitGuess
GameOverTimer(index) ==
  /\ Due(index)
  /\ timers[index].delay = OVER_DELAY
  /\ emitted' = <<GameOver(timers[index].roomId, heap[timers[index].room])>>
  /\ timers' = RemoveTimer(index)
  /\ heap' = Collect(heap, rooms, timers')
  /\ UNCHANGED <<connected, waitingPlayers, rooms, socketRoomId>>

\* The part of the state space a specification explores: a step that would
\* leave it is not taken.
TotalScore(room) ==
  LET ids == PlayerArray(room)
  IN IF Len(ids) = 1 THEN room.players[ids[1]].score
     ELSE room.players[ids[1]].score + room.players[ids[2]].score

Within(maxRooms, maxGuesses, maxScore, maxTimers) ==
  /\ Len(heap) <= maxRooms
  /\ Len(timers) <= maxTimers
  /\ \A obj \in 1..Len(heap) :
       heap[obj] # Collected =>
         /\ TotalScore(heap[obj]) <= maxScore
         /\ \A id \in DOMAIN heap[obj].players :
              Len(heap[obj].players[id].guesses) <= maxGuesses

\* ------------------------------------------------------------ matchmaking
\* The matchmaking handlers of every socket. The round start that a pairing
\* schedules stays pending: it writes neither the waiting list nor the registry.
InMatch == Within(MaxRooms, 0, 0, MaxRooms)

NextMatch ==
  \/ \E p \in Players : FindMatch(p) /\ InMatch'
  \/ \E p \in Players : CancelMatch(p)
  \/ \E p \in Players : Disconnect(p)

SpecMatch == Init /\ [][NextMatch]_vars

\* ---------------------------------------------------------------- one room
\* The rounds of one room, from the state in which findMatch of P2 has just
\* paired it with the waiting P1: the guesses and new rounds of its two
\* players and the two delayed callbacks, in every order.
RoundPlayers == {"P1", "P2"}
RoundRoomId == <<"P2", "P1">>

InitRound ==
  /\ connected = [p \in Players |-> TRUE]
  /\ waitingPlayers = <<>>
  /\ rooms = [r \in {RoundRoomId} |-> 1]
  /\ \E word \in Words :
       LET room == NewGameRoom(RoundRoomId, "P2", "P1", word)
       IN /\ heap = <<room>>
          /\ timers = <<Timer(START_DELAY, 1, RoundRoomId, room)>>
  /\ socketRoomId = [p \in Players |-> IF p \in RoundPlayers THEN RoundRoomId ELSE <<>>]
  /\ emitted = <<MatchFound("P2", RoundRoomId, "P1"), MatchFound("P1", RoundRoomId, "P2")>>

InRound == Within(1, RoundGuesses, RoundScore, RoundTimers)

NextRound ==
  \/ \E p \in RoundPlayers, guess \in GuessInputs : SubmitGuess(p, guess) /\ InRound'
  \/ \E p \in RoundPlayers : NewRound(p)
  \/ \E index \in 1..Len(timers) : StartTimer(index)
  \/ \E index \in 1..Len(timers) : GameOverTimer(index)

SpecRound == InitRound /\ [][NextRound]_vars

\* ------------------------------------------------------------- one session
\* The life of one room, from the same state as SpecRound: typing, guesses
\* and new rounds of its two players, the two delayed callbacks, and the
\* disconnect of either player, after which the other may still send events.
InSession == Within(1, SessionGuesses, SessionScore, SessionTimers)

NextSession ==
  \/ \E p \in RoundPlayers, guess \in UpdateInputs : UpdateGuess(p, guess)
  \/ \E p \in RoundPlayers, guess \in GuessInputs : SubmitGuess(p, guess) /\ InSession'
  \/ \E p \in RoundPlayers : NewRound(p)
  \/ \E p \in RoundPlayers : Disconnect(p)
  \/ \E index \in 1..Len(timers) : StartTimer(index)
  \/ \E index \in 1..Len(timers) : GameOverTimer(index)

SpecSession == InitRound /\ [][NextSession]_vars

\* ------------------------------------------------------------- evaluation
\* checkGuess on every pair of words of equal length over EvalLetters: a
\* started room whose target is any such word, as the vocabulary may hold it,
\* and the first submitGuess of P1 in it.
InitEvaluate ==
  /\ connected = [p \in Players |-> TRUE]
  /\ waitingPlayers = <<>>
  /\ rooms = [r \in {RoundRoomId} |-> 1]
  /\ \E word \in EvalWords :
       LET room == startNewRound(NewGameRoom(RoundRoomId, "P2", "P1", word), word)
       IN /\ heap = <<room>>
          /\ emitted = <<GameStart(RoundRoomId, room)>>
  /\ timers = <<>>
  /\ socketRoomId = [p \in Players |-> IF p \in RoundPlayers THEN RoundRoomId ELSE <<>>]

NextEvaluate ==
  \E guess \in EvalWords :
    /\ heap[1].players["P1"].guesses = <<>>
    /\ SubmitGuess("P1", guess)

SpecEvaluate == InitEvaluate /\ [][NextEvaluate]_vars

\* ------------------------------------------------------------- properties
\* the rooms held in the registry
RegistryRooms == {heap[rooms[r]] : r \in DOMAIN rooms}

\* the room socket p would act on, or Collected if rooms.get() finds none
RoomOf(p) ==
  IF RoomsGet(socketRoomId[p]) = NoRoom THEN Collected
  ELSE heap[RoomsGet(socketRoomId[p])]

HasRoom(p) == RoomsGet(socketRoomId[p]) # NoRoom

\* a step that leaves every room as it is and emits nothing
Rejected == heap' = heap /\ timers' = timers /\ rooms' = rooms /\ emitted' = <<>>

Winning(record) == AllCorrect(record.result)

\* C1: in every reachable state every player of every room of the registry
\* has at most 6 guess records in the current round.
C1_AtMostSixGuesses ==
  \A room \in RegistryRooms : \A id \in DOMAIN room.players :
    Len(room.players[id].guesses) <= 6

\* C2: a submitGuess of the correct length by a player whose finished flag is
\* already true is rejected: no guess record is appended, won, finished and
\* score stay as they are, and nothing is broadcast or scheduled.
C2_FinishedPlayerRejected ==
  [][\A p \in Players, guess \in GuessInputs :
       (/\ SubmitGuess(p, guess)
        /\ HasRoom(p)
        /\ p \in DOMAIN RoomOf(p).players
        /\ RoomOf(p).players[p].finished
        /\ Len(guess) = Len(RoomOf(p).targetWord))
       => Rejected]_vars

\* C3: a submitGuess that arrives while the room is in the Created state
\* (gameStarted is false) is rejected with no state change and no broadcast.
C3_CreatedRoomRejects ==
  [][\A p \in Players, guess \in GuessInputs :
       (SubmitGuess(p, guess) /\ HasRoom(p) /\ ~RoomOf(p).gameStarted)
       => Rejected]_vars

\* the registry entries whose room has p among its players
RoomsWith(p) == {r \in DOMAIN rooms : p \in DOMAIN heap[rooms[r]].players}

Queued(p) == \E i \in 1..Len(waitingPlayers) : waitingPlayers[i] = p

NoDuplicates(queue) ==
  \A i, j \in 1..Len(queue) : queue[i] = queue[j] => i = j

\* C4: every player is a member of at most one room of the registry, and a
\* findMatch of a player who is in a room neither enqueues that player nor
\* pairs it into another room.
C4_OneRoomPerPlayer ==
  [][/\ \A p \in Players : Cardinality(RoomsWith(p)') <= 1
     /\ \A p \in Players :
          (FindMatch(p) /\ RoomsWith(p) # {})
          => (waitingPlayers' = waitingPlayers /\ rooms' = rooms)]_vars

\* C5: every room of the registry has exactly two player entries, with two
\* distinct ids.
C5_TwoPlayersPerRoom ==
  \A room \in RegistryRooms : Cardinality(DOMAIN room.players) = 2

\* C6: a findMatch of a player who is already in the waiting list is a no-op:
\* the list is unchanged and never holds a player twice, and no room is
\* created.
C6_QueuedFindMatchNoOp ==
  [][/\ NoDuplicates(waitingPlayers')
     /\ \A p \in Players :
          (FindMatch(p) /\ Queued(p))
          => (waitingPlayers' = waitingPlayers /\ rooms' = rooms /\ heap' = heap)]_vars

\* C7: whatever happens between the detection that a round is complete and
\* the delayed gameOver, the gameOver message carries the target word and the
\* winner of the round that completed, as it does with the delay at zero.
C7_GameOverOfCompletedRound ==
  [][\A index \in 1..Len(timers) :
       GameOverTimer(index)
       => /\ emitted'[1].winnerId = timers[index].completed.winnerId
          /\ emitted'[1].targetWord = timers[index].completed.targetWord]_vars

\* the gameOver messages of the last step
GameOvers == {emitted[k] : k \in {i \in 1..Len(emitted) : emitted[i].type = "gameOver"}}

SomeoneWon(players) == \E id \in DOMAIN players : players[id].won

AllFinished(players) == \A id \in DOMAIN players : players[id].finished

C9_MatchmakingFifo ==
  [][/\ Len(waitingPlayers') <= 1
     /\ \A p \in Players :
          FindMatch(p) =>
            IF waitingPlayers # <<>>
              THEN LET opponent == Head(waitingPlayers)
                       roomId == <<p, opponent>>
                   IN /\ waitingPlayers' = Tail(waitingPlayers)
                      /\ roomId \in DOMAIN rooms'
                      /\ rooms'[roomId] = Len(heap) + 1
                      /\ DOMAIN heap'[rooms'[roomId]].players = {p, opponent}
              ELSE waitingPlayers' = <<p>> /\ rooms' = rooms]_vars

\* P1 and P2 are paired in one room and P3, who called last, waits alone
C9_Witness ==
  /\ <<"P2", "P1">> \in DOMAIN rooms
  /\ DOMAIN heap[rooms[<<"P2", "P1">>]].players = {"P1", "P2"}
  /\ waitingPlayers = <<"P3">>
  /\ emitted = <<WaitingForOpponent("P3")>>

\* the player has six or more guess records, none of them winning
Exhausted(player) ==
  /\ Len(player.guesses) >= 6
  /\ \A k \in 1..Len(player.guesses) : ~Winning(player.guesses[k])

\* the snapshots of the last step
Snapshots ==
  {emitted[k].gameState :
     k \in {i \in 1..Len(emitted) :
              emitted[i].type \in {"gameStart", "gameUpdate", "gameOver"}}}

\* every exhausted player is finished and has not won, and every snapshot
\* just sent says the round is over exactly if all its players are finished
ExhaustedFinished ==
  /\ \A room \in RegistryRooms : \A id \in DOMAIN room.players :
       Exhausted(room.players[id])
       => room.players[id].finished /\ ~room.players[id].won
  /\ \A state \in Snapshots : state.isGameOver <=> AllFinished(state.players)

\* a step in which a guess of player id was recorded in the room at roomId
Recorded(roomId, id) ==
  /\ roomId \in DOMAIN rooms /\ roomId \in DOMAIN rooms'
  /\ rooms'[roomId] = rooms[roomId]
  /\ id \in DOMAIN heap[rooms[roomId]].players
  /\ Len(heap'[rooms[roomId]].players[id].guesses) =
       Len(heap[rooms[roomId]].players[id].guesses) + 1

\* a recorded guess leaves the score as it is unless it wins, and the
\* gameOver is scheduled exactly if all players are then finished
MissKeepsScore ==
  \A roomId \in DOMAIN rooms, id \in Players :
    Recorded(roomId, id) =>
      LET old == heap[rooms[roomId]].players[id]
          new == heap'[rooms[roomId]].players[id]
      IN /\ ~Winning(new.guesses[Len(new.guesses)]) => new.score = old.score
         /\ timers' # timers <=> AllFinished(heap'[rooms[roomId]].players)

\* C10: a player with six accepted non-winning guesses in the round is
\* finished and has not won, a non-winning guess leaves the score as it is,
\* and the round is over (in the snapshot, and for scheduling the gameOver)
\* exactly if every player of the room is finished.
C10_ExhaustedNotWon == []ExhaustedFinished /\ [][MissKeepsScore]_vars

\* a player has used six guesses without winning while the opponent is still
\* active, and the snapshot just sent says the round is not over
C10_Witness ==
  \E room \in RegistryRooms : \E id, other \in DOMAIN room.players :
    /\ Len(room.players[id].guesses) = 6
    /\ Exhausted(room.players[id])
    /\ room.players[id].finished /\ ~room.players[id].won
    /\ room.players[id].score = 0
    /\ ~room.players[other].finished
    /\ emitted = <<GameUpdate(room.roomId, room)>>
    /\ ~emitted[1].gameState.isGameOver

\* C11: a submitGuess whose word length differs from the length of the room's
\* current target word changes nothing in the room (guesses, currentGuess, won,
\* finished, score, targetWord) and produces no gameUpdate and schedules no
\* gameOver.
C11_WrongLengthIgnored ==
  [][\A p \in Players, guess \in GuessInputs :
       (/\ HasRoom(p)
        /\ Len(guess) # Len(RoomOf(p).targetWord)
        /\ SubmitGuess(p, guess))
       => Rejected]_vars

\* nothing was emitted by the last event (a rejected submitGuess) in a started
\* round with a two-letter target in which guesses are recorded, so the
\* three-letter guess is of the wrong length
C11_Witness ==
  /\ emitted = <<>>
  /\ \E room \in RegistryRooms :
       /\ room.gameStarted
       /\ Len(room.targetWord) = 2
       /\ \E id \in DOMAIN room.players : Len(room.players[id].guesses) > 0

\* the players of room new are those of room old with the score kept and
\* every other field as at construction, and new is started
RoundReset(old, new) ==
  /\ new.gameStarted
  /\ DOMAIN new.players = DOMAIN old.players
  /\ \A id \in DOMAIN old.players :
       new.players[id] = [id |-> old.players[id].id,
                          guesses |-> <<>>,
                          currentGuess |-> <<>>,
                          won |-> FALSE,
                          finished |-> FALSE,
                          score |-> old.players[id].score]

OnlyCurrentGuess(old, new, p, guess) ==
  /\ new.targetWord = old.targetWord
  /\ new.gameStarted = old.gameStarted
  /\ new.roomId = old.roomId
  /\ DOMAIN new.players = DOMAIN old.players
  /\ \A id \in DOMAIN old.players :
       /\ new.players[id].guesses = old.players[id].guesses
       /\ new.players[id].won = old.players[id].won
       /\ new.players[id].finished = old.players[id].finished
       /\ new.players[id].score = old.players[id].score
       /\ new.players[id].id = old.players[id].id
       /\ new.players[id].currentGuess =
            IF id = p THEN guess ELSE old.players[id].currentGuess

\* C13: updateGuess changes only the currentGuess of the calling player,
\* whatever the text and however often it is called: guesses, won, finished
\* and score of both players and the target word stay as they are, nothing is
\* scheduled, and the same call once more leaves the room as it is.
C13_UpdateGuessOnlyTyping ==
  [][\A p \in Players, guess \in UpdateInputs :
       (HasRoom(p) /\ UpdateGuess(p, guess))
       => /\ OnlyCurrentGuess(RoomOf(p), RoomOf(p)', p, guess)
          /\ updatePlayerGuess(RoomOf(p)', p, guess) = RoomOf(p)'
          /\ emitted' = <<GameUpdate(socketRoomId[p], RoomOf(p)')>>
          /\ timers' = timers /\ rooms' = rooms
          /\ waitingPlayers' = waitingPlayers]_vars

\* a player who has won the round with one guess has typed again, over
\* text typed before: the guess record, the win and the point are kept
C13_Witness ==
  /\ Len(emitted) = 1
  /\ emitted[1].type = "gameUpdate"
  /\ \E room \in RegistryRooms : \E id \in DOMAIN room.players :
       /\ room.players[id].currentGuess = <<"ayin">>
       /\ Len(room.players[id].guesses) = 1
       /\ room.players[id].won /\ room.players[id].score = 1
       /\ emitted[1].gameState.players[id].currentGuess = <<"ayin">>

\* the entries of the queue that are not p, in their order
Others(queue, p) == SelectSeq(queue, LAMBDA q : q # p)

\* every waiting list in which no socket waits twice
Queues ==
  {queue \in UNION {[1..n -> Players] : n \in 0..Cardinality(Players)} :
     NoDuplicates(queue)}

\* on every such list, also the longer ones that findMatch never builds, the
\* removal takes out the caller and nothing else, and a second one changes
\* nothing
RemoveKeepsOrder ==
  \A queue \in Queues, p \in Players :
    /\ Remove(queue, p) = Others(queue, p)
    /\ Len(Remove(queue, p)) >= Len(queue) - 1
    /\ Remove(Remove(queue, p), p) = Remove(queue, p)

\* C14: cancelMatch removes at most one entry of the waiting list, the
\* caller's, and keeps the order of the others; it leaves the list as it is
\* when the caller is not waiting; and after it a second cancelMatch of the
\* same caller finds nothing to remove. Rooms and callbacks are not touched.
C14_CancelRemovesCaller ==
  [][\A p \in Players :
       CancelMatch(p)
       => /\ Len(waitingPlayers') >= Len(waitingPlayers) - 1
          /\ waitingPlayers' = Others(waitingPlayers, p)
          /\ ~Queued(p) => waitingPlayers' = waitingPlayers
          /\ Remove(waitingPlayers', p) = waitingPlayers'
          /\ RemoveKeepsOrder
          /\ rooms' = rooms /\ heap' = heap /\ timers' = timers]_vars

\* with P1 and P2 in a room and every socket connected, the waiting list is
\* empty and the last event emitted nothing: P3 has left the list again
C14_Witness ==
  /\ \A p \in Players : connected[p]
  /\ DOMAIN rooms = {<<"P2", "P1">>}
  /\ Len(heap) = 1
  /\ waitingPlayers = <<>>
  /\ emitted = <<>>

\* C15: in every reachable state every player with won = true also has
\* finished = true, in the rooms of the registry and in every snapshot sent.
C15_WonIsFinished ==
  /\ \A room \in RegistryRooms : \A id \in DOMAIN room.players :
       room.players[id].won => room.players[id].finished
  /\ \A state \in Snapshots : \A id \in DOMAIN state.players :
       state.players[id].won => state.players[id].finished

\* a player has won, and is finished, while the other player, with two
\* misses, is still guessing
C15_Witness ==
  \E room \in RegistryRooms : \E id, other \in DOMAIN room.players :
    /\ room.players[id].won /\ room.players[id].finished
    /\ room.players[id].score = 1
    /\ other # id
    /\ ~room.players[other].won /\ ~room.players[other].finished
    /\ Len(room.players[other].guesses) = 2

\* the disconnect of p leaves the waiting list without p and the other
\* entries in their order, leaves every room that p is not a player of in the
\* registry and as it is, and writes no field of any room
DisconnectFrame(p) ==
  /\ waitingPlayers' = Others(waitingPlayers, p)
  /\ \A r \in DOMAIN rooms :
       p \notin DOMAIN heap[rooms[r]].players
       => /\ r \in DOMAIN rooms'
          /\ rooms'[r] = rooms[r]
          /\ heap'[rooms[r]] = heap[rooms[r]]
  /\ DOMAIN rooms' \subseteq DOMAIN rooms
  /\ \A obj \in 1..Len(heap) : heap'[obj] \in {heap[obj], Collected}
  /\ timers' = timers

\* C16: a disconnect terminates the room of the disconnecting player and
\* nothing else: afterwards the player is not in the waiting list and no room
\* of the registry has the player among its players, every other room and
\* every other entry of the waiting list is as before, and no score or win
\* is recorded.
C16_DisconnectOwnRoomOnly ==
  [][\A p \in Players :
       Disconnect(p)
       => /\ DisconnectFrame(p)
          /\ ~Queued(p)'
          /\ RoomsWith(p)' = {}]_vars

\* what holds of every disconnect: the frame, and the waiting list without
\* the player
DisconnectFrameHolds ==
  [][\A p \in Players : Disconnect(p) => DisconnectFrame(p) /\ ~Queued(p)']_vars

\* The marking by counting. A position is correct iff the canonical letters
\* agree there. Of the other positions of the word that hold one letter, the
\* leftmost are present, as many as the target has positions with that
\* letter that are not correct, and the rest are absent.
Marks(word, target) ==
  LET w == normalizeHebrew(word)
      t == normalizeHebrew(target)
      Spare(letter) == Cardinality({j \in 1..Len(t) : t[j] = letter /\ w[j] # t[j]})
      Claims(i) == Cardinality({j \in 1..i : w[j] = w[i] /\ w[j] # t[j]})
  IN [i \in 1..Len(w) |->
        IF w[i] = t[i] THEN "correct"
        ELSE IF Claims(i) <= Spare(w[i]) THEN "present"
        ELSE "absent"]

\* the guess records of the rooms of the registry, each with its target
Evaluations ==
  UNION {UNION {{[word |-> room.players[id].guesses[k].word,
                  target |-> room.targetWord,
                  result |-> room.players[id].guesses[k].result] :
                   k \in 1..Len(room.players[id].guesses)} :
                id \in DOMAIN room.players} :
         room \in RegistryRooms}

\* target ABCB, guess BBXA
DuplicateExample ==
  checkGuess(<<"pe", "pe", "samekh", "ayin">>, <<"ayin", "pe", "resh", "pe">>)
    = <<"present", "correct", "absent", "present">>

\* C17: for every word and target of equal length, checkGuess returns the
\* two-pass duplicate-aware marking: correct exactly where the canonical
\* letters agree, and the remaining positions, left to right, present while
\* unconsumed target positions with that letter are left and absent after;
\* the target against itself is all correct, and target ABCB with guess BBXA
\* gives present, correct, absent, present.
C17_TwoPassMarking ==
  /\ \A e \in Evaluations :
       /\ e.result = Marks(e.word, e.target)
       /\ e.word = e.target => AllCorrect(e.result)
  /\ DuplicateExample

\* the letter pe three times in the guess and once in the target: the exact
\* match consumes it and the other two are absent
C17_Witness ==
  [word |-> <<"pe", "pe", "pe">>,
   target |-> <<"tsadi", "pe", "tsadi">>,
   result |-> <<"absent", "correct", "absent">>] \in Evaluations

\* the other glyph of the letter, if it has one
OtherGlyph(char) ==
  IF \E pair \in FinalPairs : pair[1] = char
    THEN (CHOOSE pair \in FinalPairs : pair[1] = char)[2]
  ELSE IF \E pair \in FinalPairs : pair[2] = char
    THEN (CHOOSE pair \in FinalPairs : pair[2] = char)[1]
  ELSE char

\* text with the glyph at position i replaced by the other glyph of its letter
Replaced(text, i) == [text EXCEPT ![i] = OtherGlyph(text[i])]

\* C18: replacing a letter by its final glyph, or a final glyph by the
\* letter, in the word, in the target or in both never changes the marks
\* checkGuess returns, and the marks are as many as the word has letters.
\* Every pair of words is evaluated, so the replacements at one position
\* make up those at any number of positions.
C18_GlyphInvariance ==
  \A e \in Evaluations :
    /\ Len(e.result) = Len(e.word)
    /\ \A i \in 1..Len(e.word) :
         /\ checkGuess(Replaced(e.word, i), e.target) = e.result
         /\ checkGuess(e.word, Replaced(e.target, i)) = e.result

\* a final pe in the guess is correct against the pe of the target, a pe in
\* the guess is present for the final pe of the target, and a tsadi for the
\* final tsadi
C18_Witness ==
  [word |-> <<"peF", "tsadi", "pe">>,
   target |-> <<"pe", "peF", "tsadiF">>,
   result |-> <<"correct", "present", "present">>] \in Evaluations

\* the ids of the rooms that a disconnect has torn down: a socket was paired
\* into the room and the registry no longer holds it
TornDown == {socketRoomId[p] : p \in Players} \ ({<<>>} \cup DOMAIN rooms)

\* the messages about a round
RoundMessages == {"gameStart", "gameUpdate", "gameOver"}

\* C19: once a disconnect has torn a room down, no step writes the room
\* object and no step emits gameStart, gameUpdate or gameOver for it: not a
\* callback scheduled before the disconnect, and not an updateGuess,
\* submitGuess or newRound of the remaining player.
C19_TornDownRoomIsDead ==
  [][\A roomId \in TornDown :
       /\ \A k \in 1..Len(emitted') :
            emitted'[k].type \in RoundMessages => emitted'[k].to # roomId
       /\ \A obj \in 1..Len(heap) :
            heap[obj].roomId = roomId
            => heap'[obj] \in {heap[obj], Collected}]_vars

\* C20: the start callback scheduled at pairing does not disturb a round that
\* is active: when a newRound has started the room and guesses are recorded
\* before the callback runs, the callback leaves the target word and
\* guesses, won and finished of both players as they are.
C20_StartKeepsActiveRound ==
  [][\A index \in 1..Len(timers) :
       (/\ timers[index].delay = START_DELAY
        /\ heap[timers[index].room].gameStarted
        /\ \E id \in DOMAIN heap[timers[index].room].players :
             heap[timers[index].room].players[id].guesses # <<>>
        /\ StartTimer(index))
       => LET old == heap[timers[index].room]
              new == heap'[timers[index].room]
          IN /\ new.targetWord = old.targetWord
             /\ \A id \in DOMAIN old.players :
                  /\ new.players[id].guesses = old.players[id].guesses
                  /\ new.players[id].won = old.players[id].won
                  /\ new.players[id].finished = old.players[id].finished]_vars

====
